---------------------------- MODULE Spec2Model ----------------------------
(***************************************************************************)
(* Building access analyzer: BuildingAccessAnalyzer of                     *)
(* src/building_access_analyzer.py.                                        *)
(*                                                                         *)
(* A Python str is modelled as the sequence of its code points, so that    *)
(* strip(), string comparison, concatenation, join and strptime are        *)
(* computed character by character.  A dict is modelled as the sequence of *)
(* its (key, value) items in insertion order, a set as the sequence of its *)
(* distinct elements.  A CSV row is the list of its cells.                 *)
(***************************************************************************)
EXTENDS Integers, Sequences, FiniteSets, TLC

\* fieldnames: the header of the file being read;  file: the file at
\* self.data_file, its rows as far as a reader has yielded them and how the
\* reading ends ("unread" while the first load_data is reading it, then
\* "eof" or "error");  nread: the rows the running load_data has read;
\* data: self.data;  pc: "loading" inside load_data, otherwise "ready";
\* loadError: the except clause of the latest load_data ran;
\* fobOut, busyOut: what the latest call of each report since the latest
\* load_data gave back;  unit_fobs, unit_hour_counts: the mapping that call
\* built (up to the exception, when it raised);  dirs, files: the
\* directories and the files (path to content) the reports have made;
\* printed: what that call of each report printed, one string for each
\* print()
VARIABLES fieldnames, file, nread, data, pc, loadError, fobOut, busyOut,
          unit_fobs, unit_hour_counts, dirs, files, printed

vars ==
    <<fieldnames, file, nread, data, pc, loadError, fobOut, busyOut,
      unit_fobs, unit_hour_counts, dirs, files, printed>>

\* Most rows of one file.
MaxRows == 3

\* Most records self.data holds: load_data is called again only while the
\* rows of the file still fit.
MaxRecords == 4

---------------------------------------------------------------------------
\* Python str and list primitives

Range(s) == {s[i] : i \in 1..Len(s)}

\* str.isspace() of one character (code points below 256)
IsSpace(c) == c \in {9, 10, 11, 12, 13, 28, 29, 30, 31, 32, 133, 160}

RECURSIVE LStrip(_)
LStrip(s) ==
    IF s = <<>> THEN s
    ELSE IF IsSpace(Head(s)) THEN LStrip(Tail(s)) ELSE s

RECURSIVE RStrip(_)
RStrip(s) ==
    IF s = <<>> THEN s
    ELSE IF IsSpace(s[Len(s)]) THEN RStrip(SubSeq(s, 1, Len(s) - 1)) ELSE s

\* str.strip()
Strip(s) == RStrip(LStrip(s))

\* a < b on str: code point by code point, a proper prefix is smaller
RECURSIVE StrLess(_, _)
StrLess(a, b) ==
    IF b = <<>> THEN FALSE
    ELSE IF a = <<>> THEN TRUE
    ELSE IF Head(a) # Head(b) THEN Head(a) < Head(b)
    ELSE StrLess(Tail(a), Tail(b))

\* A faulty variant of Join: every part is followed by the separator.
RECURSIVE JoinTerminated(_, _)
JoinTerminated(parts, sep) ==
    IF parts = <<>> THEN <<>>
    ELSE parts[1] \o sep \o JoinTerminated(Tail(parts), sep)

\* sep.join(parts)
RECURSIVE Join(_, _)
Join(parts, sep) ==
    IF parts = <<>> THEN <<>>
    ELSE IF Len(parts) = 1 THEN parts[1]
    ELSE parts[1] \o sep \o Join(Tail(parts), sep)

\* str(n) for n >= 0
RECURSIVE IntToStr(_)
IntToStr(n) ==
    IF n < 10 THEN <<48 + n>> ELSE IntToStr(n \div 10) \o <<48 + (n % 10)>>

RECURSIVE InsertStr(_, _)
InsertStr(x, s) ==
    IF s = <<>> THEN <<x>>
    ELSE IF StrLess(x, Head(s)) THEN <<x>> \o s
    ELSE <<Head(s)>> \o InsertStr(x, Tail(s))

RECURSIVE SortStrsFrom(_, _)
SortStrsFrom(s, acc) ==
    IF s = <<>> THEN acc ELSE SortStrsFrom(Tail(s), InsertStr(Head(s), acc))

\* A faulty variant of SortStrs: the elements stay in iteration order.
SortStrsUnsorted(s) == s

\* sorted(s) of an iterable of str
SortStrs(s) == SortStrsFrom(s, <<>>)

RECURSIVE InsertInt(_, _)
InsertInt(x, s) ==
    IF s = <<>> THEN <<x>>
    ELSE IF x < Head(s) THEN <<x>> \o s
    ELSE <<Head(s)>> \o InsertInt(x, Tail(s))

RECURSIVE SortIntsFrom(_, _)
SortIntsFrom(s, acc) ==
    IF s = <<>> THEN acc ELSE SortIntsFrom(Tail(s), InsertInt(Head(s), acc))

\* A faulty variant of SortInts: the hours stay in the order first seen.
SortIntsUnsorted(s) == s

\* list.sort() of a list of int
SortInts(s) == SortIntsFrom(s, <<>>)

\* The hash seeds of a run (PYTHONHASHSEED): the order a set of str is
\* iterated in depends on it, and any order of its elements can come out.
\* A seed is the order of the slots the elements were added into.
HashSeeds == Permutations(1..MaxRecords)

\* iter(s) of a set of str under a hash seed: the elements in the order the
\* seed gives their slots
SetOrder(s, seed) ==
    LET order == SelectSeq(seed, LAMBDA k : k <= Len(s))
    IN  [i \in 1..Len(s) |-> s[order[i]]]

\* A faulty variant of SetAdd: a list that is appended to.
SetAddAppend(s, x) == Append(s, x)

\* set.add(x)
SetAdd(s, x) == IF x \in Range(s) THEN s ELSE Append(s, x)

\* dict: the items [k, v] in insertion order, keys distinct
DictKeys(d) == [i \in 1..Len(d) |-> d[i].k]

DictHas(d, key) == \E i \in 1..Len(d) : d[i].k = key

DictIndex(d, key) == CHOOSE i \in 1..Len(d) : d[i].k = key

DictGet(d, key) == d[DictIndex(d, key)].v

\* d[key] = value
DictSet(d, key, value) ==
    IF DictHas(d, key)
    THEN [d EXCEPT ![DictIndex(d, key)] = [k |-> key, v |-> value]]
    ELSE Append(d, [k |-> key, v |-> value])

\* A faulty variant of SortItems: the items stay in insertion order.
SortItemsUnsorted(d) == d

\* sorted(d.items()) of a dict with str keys: by key, the keys being distinct
SortItems(d) ==
    LET keys == SortStrs(DictKeys(d))
    IN  [i \in 1..Len(keys) |-> [k |-> keys[i], v |-> DictGet(d, keys[i])]]

---------------------------------------------------------------------------
\* Records: what csv.DictReader yields

\* A cell of a record: a str, or None (DictReader's restval)
Str(s) == [none |-> FALSE, s |-> s]

None == [none |-> TRUE, s |-> <<>>]

\* The header of the CSV files of the tests
FIELDNAMES ==
    <<"UnitID", "CardFirstName", "CardLastName", "CardBatch", "CardNumber",
      "AccessTimestamp">>

\* The same file without its CardBatch column
FIELDNAMES_NO_BATCH ==
    <<"UnitID", "CardFirstName", "CardLastName", "CardNumber",
      "AccessTimestamp">>

\* A file with neither a CardFirstName nor an AccessTimestamp column
FIELDNAMES_NO_UNIT == <<"UnitID", "CardBatch", "CardNumber">>

\* A file with the four columns the reports read and no other
FIELDNAMES_CORE ==
    <<"CardFirstName", "CardBatch", "CardNumber", "AccessTimestamp">>

Headers ==
    {FIELDNAMES, FIELDNAMES_NO_BATCH, FIELDNAMES_NO_UNIT, FIELDNAMES_CORE}

\* DictReader.__next__: zip(fieldnames, row), a field the row is too short
\* for is None.  (Cells beyond the header go under the key None, which no
\* report reads; the rows modelled have none.)
DictRow(names, row) ==
    [key \in Range(names) |->
        LET i == CHOOSE j \in 1..Len(names) : names[j] = key
        IN  IF i <= Len(row) THEN Str(row[i]) ELSE None]

\* record.get(key, '')
Get(record, key) ==
    IF key \in DOMAIN record THEN record[key] ELSE Str(<<>>)

---------------------------------------------------------------------------
\* What a call gives back: the text it returns, or the exception it raises

NotCalled == [status |-> "none", exc |-> "", text |-> <<>>]

Returned(text) == [status |-> "returned", exc |-> "", text |-> text]

Raised(exc) == [status |-> "raised", exc |-> exc, text |-> <<>>]

---------------------------------------------------------------------------
\* Output the report: the file system and print()

\* os.path.dirname(path): up to the last '/', without trailing slashes
\* unless it is made of slashes only
Dirname(path) ==
    LET slashes == {i \in 1..Len(path) : path[i] = 47}
        last    == CHOOSE i \in slashes : \A j \in slashes : j <= i
        head    == IF slashes = {} THEN <<>> ELSE SubSeq(path, 1, last)
        names   == {i \in 1..Len(head) : head[i] # 47}
        end     == CHOOSE i \in names : \A j \in names : j <= i
    IN  IF names = {} THEN head ELSE SubSeq(head, 1, end)

\* os.makedirs(name, exist_ok=True): the directory and its missing parents
\* are made; mkdir('') raises FileNotFoundError.  (No path modelled names
\* an existing file.)
MakeDirs(made, name) ==
    IF name = <<>> THEN [exc |-> "FileNotFoundError", dirs |-> made]
    ELSE [exc |-> "",
          dirs |-> made
                   \cup {SubSeq(name, 1, i - 1) :
                            i \in {j \in 2..Len(name) : name[j] = 47}}
                   \cup {name}]

\* with open(path, 'w') as file: file.write(content)
WriteFile(written, path, content) ==
    [f \in DOMAIN written \cup {path} |->
        IF f = path THEN content ELSE written[f]]

\* if output_file: a path that is neither None nor ''
Truthy(output_file) == ~output_file.none /\ output_file.s # <<>>

\* The output step of a report: with a target, the parent directories are
\* made, the file is written and saved is printed with the path; without,
\* title and the report are printed.  out: what the call gives back.
Output(report_content, output_file, saved, title) ==
    IF Truthy(output_file)
    THEN LET made == MakeDirs(dirs, Dirname(output_file.s))
         IN  IF made.exc # ""
             THEN [out |-> Raised(made.exc), printed |-> <<>>,
                   dirs |-> dirs, files |-> files]
             ELSE [out |-> Returned(report_content),
                   printed |-> <<saved \o output_file.s>>,
                   dirs |-> made.dirs,
                   files |-> WriteFile(files, output_file.s, report_content)]
    ELSE [out |-> Returned(report_content),
          printed |-> <<title, report_content>>,
          dirs |-> dirs, files |-> files]

---------------------------------------------------------------------------
\* generate_unit_fob_report

FOB_HEADER ==
    <<85, 110, 105, 116, 32, 78, 117, 109, 98, 101, 114, 32, 40, 70, 105,
      114, 115, 116, 32, 78, 97, 109, 101, 41, 44, 70, 111, 98, 32, 73, 68,
      115, 32, 40, 67, 97, 114, 100, 66, 97, 116, 99, 104, 45, 67, 97, 114,
      100, 78, 117, 109, 98, 101, 114, 41>>
    \* "Unit Number (First Name),Fob IDs (CardBatch-CardNumber)"

\* "Report saved to "
FOB_SAVED ==
    <<82, 101, 112, 111, 114, 116, 32, 115, 97, 118, 101, 100, 32, 116, 111,
      32>>

\* "\nUnit to Fob Report:"
FOB_TITLE ==
    <<10, 85, 110, 105, 116, 32, 116, 111, 32, 70, 111, 98, 32, 82, 101,
      112, 111, 114, 116, 58>>

\* unit_fobs = defaultdict(set)
NewUnitFobs == <<>>

\* A faulty variant of FobId: the two fields run together without the separator.
FobIdNoSeparator(card_batch, card_number) == card_batch \o card_number

\* f"{card_batch}-{card_number}"
FobId(card_batch, card_number) == card_batch \o <<45>> \o card_number

\* unit_fobs[unit_number].add(fob_id) on a defaultdict(set)
AddFob(fobs, unit_number, fob_id) ==
    DictSet(fobs, unit_number,
            SetAdd(IF DictHas(fobs, unit_number)
                   THEN DictGet(fobs, unit_number) ELSE <<>>, fob_id))

\* The loop over self.data, from record i on: the mapping it builds, or exc
\* when .strip() is called on None (a field the CSV row was too short for).
RECURSIVE FobLoop(_, _, _)
FobLoop(records, i, fobs) ==
    IF i > Len(records) THEN [exc |-> FALSE, unit_fobs |-> fobs]
    ELSE
      LET record == records[i]
          first  == Get(record, "CardFirstName")
          batch  == Get(record, "CardBatch")
          number == Get(record, "CardNumber")
      IN  IF first.none \/ batch.none \/ number.none
          THEN [exc |-> TRUE, unit_fobs |-> fobs]
          ELSE
            LET unit_number == Strip(first.s)
                card_batch  == Strip(batch.s)
                card_number == Strip(number.s)
                fob_id      == FobId(card_batch, card_number)
            IN  FobLoop(records, i + 1,
                        IF unit_number # <<>>
                        THEN AddFob(fobs, unit_number, fob_id)
                        ELSE fobs)

\* f"{unit},{fobs_str}" for each unit of sorted(unit_fobs.items()), each set
\* iterated in the order of the hash seed
FobLines(fobs, seed) ==
    LET items == SortItems(fobs)
    IN  [i \in 1..Len(items) |->
            items[i].k \o <<44>>
            \o Join(SortStrs(SetOrder(items[i].v, seed)), <<59, 32>>)]

\* report_content, or the AttributeError of the loop
FobResult(loop, seed) ==
    IF loop.exc THEN Raised("AttributeError")
    ELSE Returned(Join(<<FOB_HEADER>> \o FobLines(loop.unit_fobs, seed),
                       <<10>>))

\* What generate_unit_fob_report() gives back for the records
FobReport(records, seed) == FobResult(FobLoop(records, 1, NewUnitFobs), seed)

---------------------------------------------------------------------------
\* datetime.strptime(timestamp_str, '%Y-%m-%dT%H:%M:%S')

\* \d (the digits 0 to 9; the rows modelled hold no other decimal digit)
IsDigit(c) == c \in 48..57

\* %m: 1[0-2]|0[1-9]|[1-9]
MatchMonth(p) ==
    IF Len(p) = 2
    THEN \/ p[1] = 49 /\ p[2] \in 48..50
         \/ p[1] = 48 /\ p[2] \in 49..57
    ELSE p[1] \in 49..57

\* %d: 3[0-1]|[1-2]\d|0[1-9]|[1-9]| [1-9]
MatchDay(p) ==
    IF Len(p) = 2
    THEN \/ p[1] = 51 /\ p[2] \in 48..49
         \/ p[1] \in 49..50 /\ IsDigit(p[2])
         \/ p[1] = 48 /\ p[2] \in 49..57
         \/ p[1] = 32 /\ p[2] \in 49..57
    ELSE p[1] \in 49..57

\* %H: 2[0-3]|[0-1]\d|\d
MatchHour(p) ==
    IF Len(p) = 2
    THEN \/ p[1] = 50 /\ p[2] \in 48..51
         \/ p[1] \in 48..49 /\ IsDigit(p[2])
    ELSE IsDigit(p[1])

\* %M: [0-5]\d|\d
MatchMinute(p) ==
    IF Len(p) = 2 THEN p[1] \in 48..53 /\ IsDigit(p[2]) ELSE IsDigit(p[1])

\* %S: 6[0-1]|[0-5]\d|\d
MatchSecond(p) ==
    IF Len(p) = 2
    THEN \/ p[1] = 54 /\ p[2] \in 48..49
         \/ p[1] \in 48..53 /\ IsDigit(p[2])
    ELSE IsDigit(p[1])

\* A directive's pattern
Matches(directive, p) ==
    CASE directive = "m" -> MatchMonth(p)
      [] directive = "d" -> MatchDay(p)
      [] directive = "H" -> MatchHour(p)
      [] directive = "M" -> MatchMinute(p)
      [] directive = "S" -> MatchSecond(p)

\* What follows a directive in the format: one of the characters given at
\* pos, or the end of the string when none is given
Follows(s, pos, literal) ==
    IF literal = {} THEN pos = Len(s) + 1
    ELSE pos <= Len(s) /\ s[pos] \in literal

\* The length (2, 1, or 0 for no match) of the field at pos: a directive's
\* pattern, then what follows it in the format.
FieldLen(s, pos, directive, literal) ==
    IF /\ pos + 1 <= Len(s)
       /\ Matches(directive, SubSeq(s, pos, pos + 1))
       /\ Follows(s, pos + 2, literal)
    THEN 2
    ELSE IF /\ pos <= Len(s)
            /\ Matches(directive, SubSeq(s, pos, pos))
            /\ Follows(s, pos + 1, literal)
    THEN 1
    ELSE 0

\* int() of a matched field (a day may be a space and a digit)
RECURSIVE FieldValue(_)
FieldValue(p) ==
    IF p = <<>> THEN 0
    ELSE IF p[Len(p)] = 32 THEN 0
    ELSE 10 * FieldValue(SubSeq(p, 1, Len(p) - 1)) + (p[Len(p)] - 48)

IsLeap(year) == year % 4 = 0 /\ (year % 100 # 0 \/ year % 400 = 0)

DaysInMonth(year, month) ==
    IF month = 2 THEN (IF IsLeap(year) THEN 29 ELSE 28)
    ELSE IF month \in {4, 6, 9, 11} THEN 30 ELSE 31

\* A faulty variant of strptime: the strict format, every field two digits.
strptimeStrict(s) ==
    IF /\ Len(s) = 19
       /\ \A i \in {1, 2, 3, 4, 6, 7, 9, 10, 12, 13, 15, 16, 18, 19} :
              IsDigit(s[i])
       /\ s[5] = 45 /\ s[8] = 45 /\ s[11] = 84 /\ s[14] = 58 /\ s[17] = 58
    THEN [ok |-> TRUE, hour |-> FieldValue(SubSeq(s, 12, 13))]
    ELSE [ok |-> FALSE, hour |-> 0]

\* ok: no ValueError; hour: timestamp.hour.  The format is compiled to a
\* regular expression matched ignoring case, the whole string must be
\* consumed, and datetime() rejects year 0, a day the month does not have
\* and a second above 59.
strptime(s) ==
    LET n  == Len(s)
        lm == IF n >= 5 /\ (\A i \in 1..4 : IsDigit(s[i])) /\ s[5] = 45
              THEN FieldLen(s, 6, "m", {45}) ELSE 0
        pd == 6 + lm + 1
        ld == IF lm = 0 THEN 0 ELSE FieldLen(s, pd, "d", {84, 116})
        ph == pd + ld + 1
        lh == IF ld = 0 THEN 0 ELSE FieldLen(s, ph, "H", {58})
        pM == ph + lh + 1
        lM == IF lh = 0 THEN 0 ELSE FieldLen(s, pM, "M", {58})
        pS == pM + lM + 1
        lS == IF lM = 0 THEN 0 ELSE FieldLen(s, pS, "S", {})
        year   == FieldValue(SubSeq(s, 1, 4))
        month  == FieldValue(SubSeq(s, 6, 5 + lm))
        day    == FieldValue(SubSeq(s, pd, pd + ld - 1))
        hour   == FieldValue(SubSeq(s, ph, ph + lh - 1))
        second == FieldValue(SubSeq(s, pS, pS + lS - 1))
    IN  IF lS # 0 /\ year >= 1 /\ day <= DaysInMonth(year, month)
           /\ second <= 59
        THEN [ok |-> TRUE, hour |-> hour]
        ELSE [ok |-> FALSE, hour |-> 0]

---------------------------------------------------------------------------
\* generate_busy_time_report

BUSY_HEADER ==
    <<85, 110, 105, 116, 32, 78, 117, 109, 98, 101, 114, 32, 40, 70, 105,
      114, 115, 116, 32, 78, 97, 109, 101, 41, 44, 66, 117, 115, 105, 101,
      115, 116, 32, 84, 105, 109, 101, 40, 115, 41, 32, 40, 72, 111, 117,
      114, 58, 77, 105, 110, 117, 116, 101, 41>>
    \* "Unit Number (First Name),Busiest Time(s) (Hour:Minute)"

\* "Busy time report saved to "
BUSY_SAVED ==
    <<66, 117, 115, 121, 32, 116, 105, 109, 101, 32, 114, 101, 112, 111,
      114, 116, 32, 115, 97, 118, 101, 100, 32, 116, 111, 32>>

\* "\nBusiest Time Report:"
BUSY_TITLE ==
    <<10, 66, 117, 115, 105, 101, 115, 116, 32, 84, 105, 109, 101, 32, 82,
      101, 112, 111, 114, 116, 58>>

\* A faulty variant of NewUnitHourCounts: the histogram of the call before.
KeptUnitHourCounts == unit_hour_counts

\* unit_hour_counts = defaultdict(lambda: defaultdict(int))
NewUnitHourCounts == <<>>

\* unit_hour_counts[unit_number][hour] += 1 on a defaultdict of
\* defaultdict(int)
IncrHour(counts, unit_number, hour) ==
    LET hour_counts == IF DictHas(counts, unit_number)
                       THEN DictGet(counts, unit_number) ELSE <<>>
        count == IF DictHas(hour_counts, hour)
                 THEN DictGet(hour_counts, hour) ELSE 0
    IN  DictSet(counts, unit_number,
                DictSet(hour_counts, hour, count + 1))

\* A faulty variant of CountsAccess: the timestamp is not looked at.
CountsAccessAnyStamp(unit_number, timestamp_str) == unit_number # <<>>

\* if unit_number and timestamp_str: ... except ValueError: continue
CountsAccess(unit_number, timestamp_str) ==
    unit_number # <<>> /\ timestamp_str # <<>> /\ strptime(timestamp_str).ok

\* The loop over self.data, from record i on: the histogram it builds, or
\* exc when .strip() is called on None.
RECURSIVE BusyLoop(_, _, _)
BusyLoop(records, i, counts) ==
    IF i > Len(records)
    THEN [exc |-> FALSE, unit_hour_counts |-> counts]
    ELSE
      LET record == records[i]
          first  == Get(record, "CardFirstName")
          stamp  == Get(record, "AccessTimestamp")
      IN  IF first.none \/ stamp.none
          THEN [exc |-> TRUE, unit_hour_counts |-> counts]
          ELSE
            LET unit_number   == Strip(first.s)
                timestamp_str == Strip(stamp.s)
                timestamp     == strptime(timestamp_str)
            IN  BusyLoop(records, i + 1,
                         IF CountsAccess(unit_number, timestamp_str)
                         THEN IncrHour(counts, unit_number,
                                       timestamp.hour)
                         ELSE counts)

\* max(hour_counts.values())
MaxCount(hour_counts) ==
    CHOOSE m \in {hour_counts[i].v : i \in 1..Len(hour_counts)} :
        \A i \in 1..Len(hour_counts) : hour_counts[i].v <= m

\* A faulty variant of BusiestHours: the first hour reaching the maximum.
BusiestHoursFirstOnly(hour_counts) ==
    LET max_count == MaxCount(hour_counts)
        busiest == SelectSeq(hour_counts, LAMBDA it : it.v = max_count)
    IN  <<busiest[1].k>>

\* busiest_hours: the hours whose count is max_count, sorted
BusiestHours(hour_counts) ==
    LET max_count == MaxCount(hour_counts)
        busiest == SelectSeq(hour_counts, LAMBDA it : it.v = max_count)
    IN  SortInts([i \in 1..Len(busiest) |-> busiest[i].k])

\* '; '.join(f"{hour}:00" for hour in busiest_hours)
BusiestTime(hour_counts) ==
    LET busiest_hours == BusiestHours(hour_counts)
    IN  Join([i \in 1..Len(busiest_hours) |->
                 IntToStr(busiest_hours[i]) \o <<58, 48, 48>>], <<59, 32>>)

\* unit_busy_times: one entry for each unit whose hour_counts is not empty
UnitBusyTimes(counts) ==
    LET valid == SelectSeq(counts, LAMBDA it : it.v # <<>>)
    IN  [i \in 1..Len(valid) |->
            [k |-> valid[i].k, v |-> BusiestTime(valid[i].v)]]

\* f"{unit},{busiest_time}" for each unit of sorted(unit_busy_times.items())
BusyLines(unit_busy_times) ==
    LET items == SortItems(unit_busy_times)
    IN  [i \in 1..Len(items) |-> items[i].k \o <<44>> \o items[i].v]

\* report_content, or the AttributeError of the loop
BusyResult(loop) ==
    IF loop.exc THEN Raised("AttributeError")
    ELSE Returned(Join(<<BUSY_HEADER>>
                       \o BusyLines(UnitBusyTimes(loop.unit_hour_counts)),
                       <<10>>))

\* What generate_busy_time_report() gives back for the records
BusyReport(records) == BusyResult(BusyLoop(records, 1, NewUnitHourCounts))

---------------------------------------------------------------------------
\* The cells the rows of the modelled files are made of

\* "9"
UNIT_9 == <<57>>

\* "10"
UNIT_10 == <<49, 48>>

\* " 9 "
UNIT_9_PADDED == <<32, 57, 32>>

\* " "
BLANK == <<32>>

\* "9"
BATCH_9 == <<57>>

\* "10"
BATCH_10 == <<49, 48>>

\* " 10"
BATCH_10_PADDED == <<32, 49, 48>>

\* "1"
NUMBER_1 == <<49>>

\* "9-1"
BATCH_9_1 == <<57, 45, 49>>

\* "1-1"
NUMBER_1_1 == <<49, 45, 49>>

\* "A"
UNIT_ID == <<65>>

\* "r"
LAST_NAME == <<114>>

\* "2023-05-15T08:30:00"
TS_0830 == <<50, 48, 50, 51, 45, 48, 53, 45, 49, 53, 84, 48, 56, 58, 51, 48, 58, 48, 48>>

\* "2023-05-15T14:45:00"
TS_1445 == <<50, 48, 50, 51, 45, 48, 53, 45, 49, 53, 84, 49, 52, 58, 52, 53, 58, 48, 48>>

\* " 2023-05-15T09:15:00 "
TS_0915_PADDED == <<32, 50, 48, 50, 51, 45, 48, 53, 45, 49, 53, 84, 48, 57, 58, 49, 53, 58, 48, 48, 32>>

\* "2023-5-15T8:05:00"
TS_0805_SHORT == <<50, 48, 50, 51, 45, 53, 45, 49, 53, 84, 56, 58, 48, 53, 58, 48, 48>>

\* "2024-02-29t23:59:59"
TS_2359_LOWER == <<50, 48, 50, 52, 45, 48, 50, 45, 50, 57, 116, 50, 51, 58, 53, 57, 58, 53, 57>>

\* "2023-02-30T10:00:00"
TS_FEB_30 == <<50, 48, 50, 51, 45, 48, 50, 45, 51, 48, 84, 49, 48, 58, 48, 48, 58, 48, 48>>

\* "2023-05-15 08:30:00"
TS_NO_T == <<50, 48, 50, 51, 45, 48, 53, 45, 49, 53, 32, 48, 56, 58, 51, 48, 58, 48, 48>>

EMPTY == <<>>

\* Timestamps: two plain ones, one padded with spaces, one with one-digit
\* month and hour, one with a lower-case t on a leap day, and three that do
\* not parse (empty, a day the month does not have, no T)
Timestamps ==
    {TS_0830, TS_1445, TS_0915_PADDED, TS_0805_SHORT, TS_2359_LOWER,
     EMPTY, TS_FEB_30, TS_NO_T}

CsvRow(unit, batch, number, stamp) ==
    <<UNIT_ID, unit, LAST_NAME, batch, number, stamp>>

FobRows ==
    {CsvRow(unit, batch, NUMBER_1, TS_0830) :
        unit \in {UNIT_9, UNIT_10},
        batch \in {BATCH_9, BATCH_10, BATCH_10_PADDED, EMPTY}}
    \cup {CsvRow(UNIT_9_PADDED, BATCH_9, NUMBER_1, TS_0830),
          CsvRow(UNIT_9_PADDED, BATCH_10, NUMBER_1, TS_0830),
          CsvRow(UNIT_9, BATCH_9, EMPTY, TS_0830),
          CsvRow(UNIT_9, BATCH_9_1, NUMBER_1, TS_0830),
          CsvRow(UNIT_9, BATCH_9, NUMBER_1_1, TS_0830)}

BusyRows ==
    {CsvRow(UNIT_9, BATCH_9, NUMBER_1, stamp) : stamp \in Timestamps}
    \cup {CsvRow(UNIT_10, BATCH_9, NUMBER_1, stamp) :
             stamp \in {TS_0830, TS_1445, EMPTY, TS_FEB_30}}

\* Rows without a unit: CardFirstName empty or blank
NoUnitRows ==
    {CsvRow(EMPTY, BATCH_9, NUMBER_1, TS_0830),
     CsvRow(BLANK, BATCH_10, NUMBER_1, TS_1445)}

\* Rows with fewer cells than the header has fields
ShortRows ==
    {<<UNIT_ID>>,
     <<UNIT_ID, EMPTY, LAST_NAME>>,
     <<UNIT_ID, UNIT_9, LAST_NAME>>,
     <<UNIT_ID, UNIT_9, LAST_NAME, BATCH_9, NUMBER_1>>}

\* Rows of a file with the four columns only: unit "9" with two
\* credentials and accesses at 14 and at 8, unit "10", a row without a
\* timestamp, one without a unit and one with the unit cell only
CoreRows ==
    {<<UNIT_9, BATCH_9, NUMBER_1, TS_1445>>,
     <<UNIT_9, BATCH_10, NUMBER_1, TS_0830>>,
     <<UNIT_10, BATCH_9, NUMBER_1, TS_0830>>,
     <<UNIT_10, BATCH_9, NUMBER_1, EMPTY>>,
     <<EMPTY, BATCH_9, NUMBER_1, TS_0830>>,
     <<UNIT_9>>}

\* The rows a file with the given header may hold
CsvRows(names) ==
    IF names = FIELDNAMES
    THEN FobRows \cup BusyRows \cup NoUnitRows \cup ShortRows
    ELSE IF names = FIELDNAMES_NO_BATCH
    THEN {<<UNIT_ID, unit, LAST_NAME, NUMBER_1, stamp>> :
             unit \in {UNIT_9, UNIT_10, EMPTY}, stamp \in {TS_0830, EMPTY}}
    ELSE IF names = FIELDNAMES_CORE
    THEN CoreRows
    ELSE {<<UNIT_ID, BATCH_9, NUMBER_1>>, <<UNIT_ID, BATCH_10, NUMBER_1>>}

\* "out/a/r.csv"
PATH_NESTED == <<111, 117, 116, 47, 97, 47, 114, 46, 99, 115, 118>>

\* "r.csv"
PATH_BARE == <<114, 46, 99, 115, 118>>

\* The output_file of a call: None (the default), '', a path in a directory
\* that may not exist yet, a bare file name
Targets == {None, Str(EMPTY), Str(PATH_NESTED), Str(PATH_BARE)}

---------------------------------------------------------------------------
\* BuildingAccessAnalyzer

\* __init__: self.data = [], then load_data() opens the file, whose header
\* gives the field names
Init ==
    /\ fieldnames \in Headers
    /\ file = [rows |-> <<>>, end |-> "unread"]
    /\ nread = 0
    /\ data = <<>>
    /\ pc = "loading"
    /\ loadError = FALSE
    /\ fobOut = NotCalled
    /\ busyOut = NotCalled
    /\ unit_fobs = <<>>
    /\ unit_hour_counts = <<>>
    /\ dirs = {}
    /\ files = <<>>
    /\ printed = [fob |-> <<>>, busy |-> <<>>]

\* load_data() called again on a constructed analyzer: the file is opened
\* and read from its first row once more; self.data is not reset.  What the
\* reports gave back for the records before is no longer the latest.
load_data ==
    /\ pc = "ready"
    /\ Len(data) + Len(file.rows) <= MaxRecords
    /\ pc' = "loading"
    /\ nread' = 0
    /\ loadError' = FALSE
    /\ fobOut' = NotCalled
    /\ busyOut' = NotCalled
    /\ unit_fobs' = <<>>
    /\ unit_hour_counts' = <<>>
    /\ printed' = [fob |-> <<>>, busy |-> <<>>]
    /\ UNCHANGED <<fieldnames, file, data, dirs, files>>

\* load_data: the reader yields one more row, which is appended: a row not
\* seen before while the file is read for the first time, the row after
\* the nread rows already read when it is read again
load_data_row(row) ==
    /\ pc = "loading"
    /\ IF file.end = "unread"
       THEN /\ Len(file.rows) < MaxRows
            /\ file' = [file EXCEPT !.rows = Append(@, row)]
       ELSE /\ nread < Len(file.rows)
            /\ row = file.rows[nread + 1]
            /\ UNCHANGED file
    /\ nread' = nread + 1
    /\ data' = Append(data, DictRow(fieldnames, row))
    /\ UNCHANGED <<fieldnames, pc, loadError, fobOut, busyOut, unit_fobs,
                   unit_hour_counts, dirs, files, printed>>

\* load_data: the reader is exhausted, "Successfully loaded"
load_data_done ==
    /\ pc = "loading"
    /\ \/ file.end = "unread"
       \/ file.end = "eof" /\ nread = Len(file.rows)
    /\ file' = [file EXCEPT !.end = "eof"]
    /\ pc' = "ready"
    /\ UNCHANGED <<fieldnames, nread, data, loadError, fobOut, busyOut,
                   unit_fobs, unit_hour_counts, dirs, files, printed>>

\* load_data: open() or the reader raises (no such file, a decoding error,
\* a csv.Error), the except clause prints it; self.data stays as it is
load_data_except ==
    /\ pc = "loading"
    /\ \/ file.end = "unread"
       \/ file.end = "error" /\ nread = Len(file.rows)
    /\ file' = [file EXCEPT !.end = "error"]
    /\ pc' = "ready"
    /\ loadError' = TRUE
    /\ UNCHANGED <<fieldnames, nread, data, fobOut, busyOut, unit_fobs,
                   unit_hour_counts, dirs, files, printed>>

\* generate_unit_fob_report(output_file), in a run with some hash seed.
\* (loop, result and output are each computed once.)
generate_unit_fob_report(output_file) ==
    /\ pc = "ready"
    /\ \E loop \in {FobLoop(data, 1, NewUnitFobs)} :
       \E seed \in HashSeeds :
       \E result \in {FobResult(loop, seed)} :
       \E output \in {Output(result.text, output_file, FOB_SAVED, FOB_TITLE)} :
           /\ unit_fobs' = loop.unit_fobs
           /\ IF result.status = "raised"
              THEN /\ fobOut' = result
                   /\ printed' = [printed EXCEPT !.fob = <<>>]
                   /\ UNCHANGED <<dirs, files>>
              ELSE /\ fobOut' = output.out
                   /\ printed' = [printed EXCEPT !.fob = output.printed]
                   /\ dirs' = output.dirs
                   /\ files' = output.files
    /\ UNCHANGED <<fieldnames, file, nread, data, pc, loadError, busyOut,
                   unit_hour_counts>>

\* generate_busy_time_report(output_file)
generate_busy_time_report(output_file) ==
    /\ pc = "ready"
    /\ \E loop \in {BusyLoop(data, 1, NewUnitHourCounts)} :
       \E result \in {BusyResult(loop)} :
       \E output \in {Output(result.text, output_file, BUSY_SAVED, BUSY_TITLE)} :
           /\ unit_hour_counts' = loop.unit_hour_counts
           /\ IF result.status = "raised"
              THEN /\ busyOut' = result
                   /\ printed' = [printed EXCEPT !.busy = <<>>]
                   /\ UNCHANGED <<dirs, files>>
              ELSE /\ busyOut' = output.out
                   /\ printed' = [printed EXCEPT !.busy = output.printed]
                   /\ dirs' = output.dirs
                   /\ files' = output.files
    /\ UNCHANGED <<fieldnames, file, nread, data, pc, loadError, fobOut,
                   unit_fobs>>

\* A file of any header is loaded, once or again, and the reports are
\* generated with their default target, the print sink.
Next ==
    \/ load_data
    \/ \E row \in CsvRows(fieldnames) : load_data_row(row)
    \/ load_data_done
    \/ load_data_except
    \/ generate_unit_fob_report(None)
    \/ generate_busy_time_report(None)

Spec == Init /\ [][Next]_vars

\* A file of the four columns is loaded, once or again, and the reports are
\* generated with any target.
SinkInit == Init /\ fieldnames = FIELDNAMES_CORE

SinkNext ==
    \/ load_data
    \/ \E row \in CsvRows(fieldnames) : load_data_row(row)
    \/ load_data_done
    \/ load_data_except
    \/ \E output_file \in Targets : generate_unit_fob_report(output_file)
    \/ \E output_file \in Targets : generate_busy_time_report(output_file)

SinkSpec == SinkInit /\ [][SinkNext]_vars

---------------------------------------------------------------------------
\* The vocabulary of the properties, defined on its own: sets, and what the
\* specification says of a record, a unit, a credential id and a report.

\* a < b in lexicographic (code point) order
LexLess(a, b) ==
    \E k \in 1..Len(b) :
        /\ \A j \in 1..(k - 1) : j <= Len(a) /\ a[j] = b[j]
        /\ \/ k = Len(a) + 1
           \/ k <= Len(a) /\ a[k] < b[k]

\* s without its leading and trailing whitespace
Trimmed(s) ==
    LET inner == {i \in 1..Len(s) : ~IsSpace(s[i])}
        first == CHOOSE i \in inner : \A j \in inner : i <= j
        last  == CHOOSE i \in inner : \A j \in inner : j <= i
    IN  IF inner = {} THEN <<>> ELSE SubSeq(s, first, last)

\* The parts joined with sep between them
RECURSIVE Concat(_, _)
Concat(parts, sep) ==
    IF Len(parts) = 0 THEN <<>>
    ELSE Concat(SubSeq(parts, 1, Len(parts) - 1), sep)
         \o (IF Len(parts) = 1 THEN <<>> ELSE sep) \o parts[Len(parts)]

\* The strings of S in ascending lexicographic order
RECURSIVE AscendingStrs(_)
AscendingStrs(S) ==
    IF S = {} THEN <<>>
    ELSE LET least == CHOOSE x \in S : \A y \in S \ {x} : LexLess(x, y)
         IN  <<least>> \o AscendingStrs(S \ {least})

\* The numbers of S in ascending order
RECURSIVE AscendingInts(_)
AscendingInts(S) ==
    IF S = {} THEN <<>>
    ELSE LET least == CHOOSE x \in S : \A y \in S : x <= y
         IN  <<least>> \o AscendingInts(S \ {least})

\* s cut at every occurrence of sep
RECURSIVE Split(_, _)
Split(s, sep) ==
    LET hits == {i \in 1..(Len(s) - Len(sep) + 1) :
                    SubSeq(s, i, i + Len(sep) - 1) = sep}
        at   == CHOOSE i \in hits : \A j \in hits : i <= j
    IN  IF hits = {} THEN <<s>>
        ELSE <<SubSeq(s, 1, at - 1)>>
             \o Split(SubSeq(s, at + Len(sep), Len(s)), sep)

\* The lines of a report, and the unit rows after its header
ReportLines(out) == Split(out.text, <<10>>)

UnitRows(out) == Tail(ReportLines(out))

\* The unit of a row (up to its first comma) and the field after it
RowUnit(line) == Split(line, <<44>>)[1]

RowField(line) == SubSeq(line, Len(RowUnit(line)) + 2, Len(line))

\* The two fixed header lines
FobHeaderText ==
    <<85, 110, 105, 116, 32, 78, 117, 109, 98, 101, 114, 32, 40, 70, 105,
      114, 115, 116, 32, 78, 97, 109, 101, 41, 44>>
    \o <<70, 111, 98, 32, 73, 68, 115, 32, 40, 67, 97, 114, 100, 66, 97,
         116, 99, 104, 45, 67, 97, 114, 100, 78, 117, 109, 98, 101, 114, 41>>

BusyHeaderText ==
    <<85, 110, 105, 116, 32, 78, 117, 109, 98, 101, 114, 32, 40, 70, 105,
      114, 115, 116, 32, 78, 97, 109, 101, 41, 44>>
    \o <<66, 117, 115, 105, 101, 115, 116, 32, 84, 105, 109, 101, 40, 115,
         41, 32, 40, 72, 111, 117, 114, 58, 77, 105, 110, 117, 116, 101, 41>>

\* A field of a record, a missing one being the empty string
Field(record, key) ==
    IF key \in DOMAIN record /\ ~record[key].none THEN record[key].s
    ELSE <<>>

\* The unit identifier of a record: its trimmed CardFirstName
UnitOf(record) == Trimmed(Field(record, "CardFirstName"))

\* The units that have at least one record
UnitsOf(records) == {UnitOf(records[i]) : i \in 1..Len(records)} \ {<<>>}

\* The credential id of a record: batch, '-', number, each as the report
\* extracts it (trimmed)
CredentialId(record) ==
    Trimmed(Field(record, "CardBatch")) \o <<45>>
    \o Trimmed(Field(record, "CardNumber"))

\* The distinct credential ids of a unit
IdsOf(records, unit) ==
    {CredentialId(records[i]) :
        i \in {j \in 1..Len(records) : UnitOf(records[j]) = unit}}

\* The line of a unit in the fob report
FobLineOf(records, unit) ==
    unit \o <<44>> \o Concat(AscendingStrs(IdsOf(records, unit)), <<59, 32>>)

\* How many times x occurs in the sequence q
Occurrences(q, x) == Cardinality({i \in 1..Len(q) : q[i] = x})

---------------------------------------------------------------------------
\* C1.  Every fob report that generate_unit_fob_report returns is the fixed
\* header line followed by exactly one line per unit that has a record with
\* a non-empty trimmed CardFirstName, and that unit's line is the unit, a
\* comma, and the unit's distinct credential ids in ascending lexicographic
\* order joined with "; ".
FobReportContract ==
    fobOut.status = "returned" =>
        LET lines == ReportLines(fobOut)
            units == UnitsOf(data)
        IN  /\ lines[1] = FobHeaderText
            /\ Len(lines) = 1 + Cardinality(units)
            /\ {lines[i] : i \in 2..Len(lines)}
                   = {FobLineOf(data, unit) : unit \in units}
            /\ Cardinality({FobLineOf(data, unit) : unit \in units})
                   = Cardinality(units)

\* A report with two units, one of them holding the ids "10-1" and "9-1",
\* which the string order and the numeric order put in opposite orders.
FobReportContractWitness ==
    /\ fobOut.status = "returned"
    /\ Cardinality(UnitsOf(data)) = 2
    /\ \E unit \in UnitsOf(data) :
           {<<49, 48, 45, 49>>, <<57, 45, 49>>} \subseteq IdsOf(data, unit)
    /\ data[1] = DictRow(FIELDNAMES, CsvRow(UNIT_9, BATCH_9, NUMBER_1, TS_0830))

---------------------------------------------------------------------------
\* The histogram the busy-hour report was rendered from

\* The access count of (unit, hour) in a histogram
CountOf(counts, unit, hour) ==
    IF DictHas(counts, unit) /\ DictHas(DictGet(counts, unit), hour)
    THEN DictGet(DictGet(counts, unit), hour) ELSE 0

\* The units of a mapping
KeysOf(mapping) == {mapping[i].k : i \in 1..Len(mapping)}

Hours == 0..23

\* The hours whose count for the unit equals the unit's maximum count
MaxHoursOf(counts, unit) ==
    {h \in Hours :
        /\ CountOf(counts, unit, h) > 0
        /\ \A g \in Hours : CountOf(counts, unit, g) <= CountOf(counts, unit, h)}

\* The hour without leading zero, followed by ":00"
HourText(h) ==
    (IF h >= 10 THEN <<48 + (h \div 10)>> ELSE <<>>)
    \o <<48 + (h % 10), 58, 48, 48>>

\* The line of a unit in the busy-hour report
BusyLineOf(counts, unit) ==
    LET hours == AscendingInts(MaxHoursOf(counts, unit))
    IN  unit \o <<44>>
        \o Concat([i \in 1..Len(hours) |-> HourText(hours[i])], <<59, 32>>)

\* C2.  On every line of a returned busy-hour report the hours listed are
\* exactly the hours whose access count for that unit equals the unit's
\* maximum count, every tied hour and no other, in ascending numeric order,
\* each rendered as the hour without leading zero followed by ":00", joined
\* with "; ".
BusiestHoursListed ==
    busyOut.status = "returned" =>
        LET rows == UnitRows(busyOut)
        IN  \A i \in 1..Len(rows) :
                /\ RowUnit(rows[i]) \in KeysOf(unit_hour_counts)
                /\ rows[i] = BusyLineOf(unit_hour_counts, RowUnit(rows[i]))

\* A unit with one access at 14 and then one at 8: the tie is listed as
\* "8:00; 14:00", 8 before 14 although it was seen second and "14" is the
\* smaller string.
BusiestHoursListedWitness ==
    /\ busyOut.status = "returned"
    /\ \E i \in 1..Len(unit_hour_counts) :
           /\ MaxHoursOf(unit_hour_counts, unit_hour_counts[i].k) = {8, 14}
           /\ unit_hour_counts[i].v[1].k = 14
           /\ \E j \in 1..Len(UnitRows(busyOut)) :
                  RowField(UnitRows(busyOut)[j])
                      = <<56, 58, 48, 48, 59, 32, 49, 52, 58, 48, 48>>

\* A unit with two accesses at 8 and one at 14: only "8:00" is listed.
BusiestHoursListedWitnessMax ==
    /\ busyOut.status = "returned"
    /\ \E i \in 1..Len(unit_hour_counts) :
           LET unit == unit_hour_counts[i].k
           IN  /\ CountOf(unit_hour_counts, unit, 8) = 2
               /\ CountOf(unit_hour_counts, unit, 14) = 1
               /\ UnitRows(busyOut) = <<unit \o <<44, 56, 58, 48, 48>> >>

---------------------------------------------------------------------------
\* C3.  In both reports the unit rows after the header are in strict
\* ascending lexicographic order of the trimmed unit identifier: each row's
\* unit is a trimmed identifier and is greater than the unit of the row
\* before it, so no unit appears on two rows.
RowsAscending(out) ==
    out.status = "returned" =>
        LET rows == UnitRows(out)
        IN  \A i \in 1..Len(rows) :
                /\ RowUnit(rows[i]) = Trimmed(RowUnit(rows[i]))
                /\ RowUnit(rows[i]) # <<>>
                /\ i < Len(rows) =>
                       LexLess(RowUnit(rows[i]), RowUnit(rows[i + 1]))

UnitRowsAscending == RowsAscending(fobOut) /\ RowsAscending(busyOut)

\* Both reports hold the rows of "10" and "9", in this order, although the
\* records of "9" come first in the file and one of them is padded " 9 ".
UnitRowsAscendingWitness ==
    /\ fobOut.status = "returned"
    /\ busyOut.status = "returned"
    /\ Len(data) = 3
    /\ Field(data[1], "CardFirstName") = UNIT_9
    /\ Field(data[2], "CardFirstName") = UNIT_10
    /\ Field(data[3], "CardFirstName") = UNIT_9_PADDED
    /\ [i \in 1..2 |-> RowUnit(UnitRows(fobOut)[i])] = <<UNIT_10, UNIT_9>>
    /\ [i \in 1..2 |-> RowUnit(UnitRows(busyOut)[i])] = <<UNIT_10, UNIT_9>>
    /\ Len(UnitRows(fobOut)) = 2
    /\ Len(UnitRows(busyOut)) = 2

---------------------------------------------------------------------------
\* C4.  Credential dedup: a unit's fob set never holds a credential id
\* twice and no unit has two fob sets; and once the report is returned, the
\* id of every record of a unit is exactly once in the unit's fob set and
\* exactly once on the unit's line, which is the only line of that unit.
CredentialDedup ==
    /\ \A i \in 1..Len(unit_fobs) :
           /\ Occurrences(DictKeys(unit_fobs), unit_fobs[i].k) = 1
           /\ \A j \in 1..Len(unit_fobs[i].v) :
                  Occurrences(unit_fobs[i].v, unit_fobs[i].v[j]) = 1
    /\ fobOut.status = "returned" =>
           \A i \in 1..Len(data) :
               LET unit == UnitOf(data[i])
                   rows == UnitRows(fobOut)
                   mine == {j \in 1..Len(rows) : RowUnit(rows[j]) = unit}
               IN  unit # <<>> =>
                       /\ unit \in KeysOf(unit_fobs)
                       /\ Occurrences(DictGet(unit_fobs, unit),
                                      CredentialId(data[i])) = 1
                       /\ Cardinality(mine) = 1
                       /\ \A j \in mine :
                              Occurrences(Split(RowField(rows[j]), <<59, 32>>),
                                          CredentialId(data[i])) = 1

\* Three records of one unit, the first and the third with the same batch
\* and number and another credential between them; the report is returned.
CredentialDedupWitness ==
    /\ fobOut.status = "returned"
    /\ Len(data) = 3
    /\ UnitOf(data[1]) # <<>>
    /\ UnitOf(data[2]) = UnitOf(data[1])
    /\ data[3] = data[1]
    /\ CredentialId(data[2]) # CredentialId(data[1])
    /\ Len(DictGet(unit_fobs, UnitOf(data[1]))) = 2

---------------------------------------------------------------------------
\* Records without a unit

\* The unit identifier is missing (no such column, or None), empty or
\* whitespace-only
HasNoUnit(record) == UnitOf(record) = <<>>

\* The records without the one at position i
Without(records, i) ==
    SubSeq(records, 1, i - 1) \o SubSeq(records, i + 1, Len(records))

\* No row of a returned report has an empty unit identifier
NoEmptyUnitRow(out) ==
    out.status = "returned" =>
        \A j \in 1..Len(UnitRows(out)) : RowUnit(UnitRows(out)[j]) # <<>>

\* C5.  Exclusion law: a record whose unit identifier is missing, empty or
\* whitespace-only contributes to neither report, whatever its other
\* fields: each report generated is what the same report gives on the input
\* without that record, and no row with an empty unit identifier is emitted.
ExclusionLaw ==
    /\ \A i \in 1..Len(data) :
           HasNoUnit(data[i]) =>
               /\ fobOut # NotCalled =>
                      \E seed \in HashSeeds :
                          fobOut = FobReport(Without(data, i), seed)
               /\ busyOut # NotCalled => busyOut = BusyReport(Without(data, i))
    /\ NoEmptyUnitRow(fobOut)
    /\ NoEmptyUnitRow(busyOut)

---------------------------------------------------------------------------
\* C6.  Empty input: with zero records loaded, each report generated is
\* returned and is exactly one line, its fixed header; and the first line
\* of every returned report is its header, whatever the data.
EmptyInputHeaderOnly ==
    /\ data = <<>> /\ fobOut # NotCalled =>
           fobOut.status = "returned" /\ ReportLines(fobOut) = <<FobHeaderText>>
    /\ data = <<>> /\ busyOut # NotCalled =>
           busyOut.status = "returned"
           /\ ReportLines(busyOut) = <<BusyHeaderText>>
    /\ fobOut.status = "returned" => ReportLines(fobOut)[1] = FobHeaderText
    /\ busyOut.status = "returned" => ReportLines(busyOut)[1] = BusyHeaderText

\* A header-only file was read without error and both reports were
\* generated.
EmptyInputHeaderOnlyWitness ==
    /\ fieldnames = FIELDNAMES
    /\ data = <<>>
    /\ ~loadError
    /\ fobOut.status = "returned"
    /\ busyOut.status = "returned"
    /\ fobOut.text = FobHeaderText
    /\ busyOut.text = BusyHeaderText

---------------------------------------------------------------------------
\* The record with every field stored as None read as the empty string
NoneAsEmpty(record) ==
    [key \in DOMAIN record |->
        IF record[key].none THEN Str(<<>>) ELSE record[key]]

NonesAsEmpty(records) ==
    [i \in 1..Len(records) |-> NoneAsEmpty(records[i])]

\* C7.  No exception escapes either report for any record the loader can
\* produce: a report that was generated was returned, and it is the report
\* of the same records with each missing (None) field read as the empty
\* string.
NoExceptionEscapes ==
    /\ fobOut # NotCalled =>
           /\ fobOut.status = "returned"
           /\ \E seed \in HashSeeds :
                  fobOut = FobReport(NonesAsEmpty(data), seed)
    /\ busyOut # NotCalled =>
           /\ busyOut.status = "returned"
           /\ busyOut = BusyReport(NonesAsEmpty(data))

---------------------------------------------------------------------------
\* C8.  Load failure: once load_data has failed, also part-way through the
\* file, the record sequence is empty and each report generated afterwards
\* is header-only.
LoadFailureLeavesEmpty ==
    loadError =>
        /\ data = <<>>
        /\ fobOut # NotCalled => fobOut = Returned(FobHeaderText)
        /\ busyOut # NotCalled => busyOut = Returned(BusyHeaderText)

---------------------------------------------------------------------------
\* Timestamps, as the properties read them

Digits(p, least, most) ==
    Len(p) \in least..most /\ \A i \in 1..Len(p) : p[i] \in 48..57

\* The number a string of decimal digits writes
RECURSIVE Number(_)
Number(p) ==
    IF Len(p) = 0 THEN 0
    ELSE 10 * Number(SubSeq(p, 1, Len(p) - 1)) + (p[Len(p)] - 48)

\* The last day of a month of the proleptic Gregorian calendar
LastDay(year, month) ==
    IF month = 2 /\ ((year % 4 = 0 /\ year % 100 # 0) \/ year % 400 = 0)
    THEN 29
    ELSE <<31, 28, 31, 30, 31, 30, 31, 31, 30, 31, 30, 31>>[month]

\* The date and the time of t, cut at its T (of either case), each cut at
\* its separators
DateParts(t) ==
    LET at == CHOOSE i \in 1..Len(t) : t[i] \in {84, 116}
    IN  Split(SubSeq(t, 1, at - 1), <<45>>)

TimeParts(t) ==
    LET at == CHOOSE i \in 1..Len(t) : t[i] \in {84, 116}
    IN  Split(SubSeq(t, at + 1, Len(t)), <<58>>)

\* A day: one or two digits, or a space and a digit
DayNumber(p) == IF p[1] = 32 THEN Number(Tail(p)) ELSE Number(p)

\* The timestamps the busy-hour report counts: a 4-digit year from 1, '-',
\* a month 1..12, '-', a day the month has, 'T' or 't', an hour 0..23, ':',
\* a minute 0..59, ':', a second 0..59; month, day, hour, minute and second
\* in one or two digits, a one-digit day possibly after a space.
AcceptedStamp(t) ==
    /\ Cardinality({i \in 1..Len(t) : t[i] \in {84, 116}}) = 1
    /\ Len(DateParts(t)) = 3
    /\ Len(TimeParts(t)) = 3
    /\ LET year   == DateParts(t)[1]
           month  == DateParts(t)[2]
           day    == DateParts(t)[3]
           hour   == TimeParts(t)[1]
           minute == TimeParts(t)[2]
           second == TimeParts(t)[3]
       IN  /\ Digits(year, 4, 4) /\ Number(year) >= 1
           /\ Digits(month, 1, 2) /\ Number(month) \in 1..12
           /\ \/ Digits(day, 1, 2)
              \/ Len(day) = 2 /\ day[1] = 32 /\ day[2] \in 49..57
           /\ DayNumber(day) \in 1..LastDay(Number(year), Number(month))
           /\ Digits(hour, 1, 2) /\ Number(hour) \in 0..23
           /\ Digits(minute, 1, 2) /\ Number(minute) \in 0..59
           /\ Digits(second, 1, 2) /\ Number(second) \in 0..59

\* The timestamp of a record as the report reads it: trimmed
StampOf(record) == Trimmed(Field(record, "AccessTimestamp"))

\* The records of a unit whose timestamp is valid
ValidOf(records, unit) ==
    {i \in 1..Len(records) :
        UnitOf(records[i]) = unit /\ AcceptedStamp(StampOf(records[i]))}

\* The hour a valid timestamp writes
HourOf(record) == Number(TimeParts(StampOf(record))[1])

\* The accesses a histogram holds for a unit, over all hours up to the one
\* given
RECURSIVE TotalOf(_, _, _)
TotalOf(counts, unit, hour) ==
    IF hour < 0 THEN 0
    ELSE CountOf(counts, unit, hour) + TotalOf(counts, unit, hour - 1)

\* The units of the rows of a report
RowUnits(out) == {RowUnit(UnitRows(out)[j]) : j \in 1..Len(UnitRows(out))}

\* C9.  A record with a unit but an empty or unparsable timestamp adds
\* nothing to the unit's hour histogram: the histogram of a unit holds as
\* many accesses as the unit has records with a valid timestamp.  A unit has
\* a row in the busy-hour report iff at least one of its records has a valid
\* timestamp, no row has an empty time field, and every unit with a record,
\* also one without any valid timestamp, has a row in the fob report.
InvalidStampAddsNothing ==
    /\ busyOut.status = "returned" =>
           /\ \A unit \in UnitsOf(data) \cup KeysOf(unit_hour_counts) :
                  TotalOf(unit_hour_counts, unit, 23)
                      = Cardinality(ValidOf(data, unit))
           /\ RowUnits(busyOut)
                  = {unit \in UnitsOf(data) : ValidOf(data, unit) # {}}
           /\ \A j \in 1..Len(UnitRows(busyOut)) :
                  RowField(UnitRows(busyOut)[j]) # <<>>
    /\ fobOut.status = "returned" => RowUnits(fobOut) = UnitsOf(data)

\* Unit "10" has two records, one with an empty timestamp and one on a day
\* February does not have, unit "9" one record with a valid timestamp: both
\* have a row in the fob report, only "9" has one in the busy-hour report.
InvalidStampAddsNothingWitness ==
    /\ fobOut.status = "returned"
    /\ busyOut.status = "returned"
    /\ Len(data) = 3
    /\ UnitOf(data[1]) = UNIT_10 /\ Field(data[1], "AccessTimestamp") = EMPTY
    /\ UnitOf(data[2]) = UNIT_10 /\ Field(data[2], "AccessTimestamp") = TS_FEB_30
    /\ UnitOf(data[3]) = UNIT_9 /\ Field(data[3], "AccessTimestamp") = TS_0830
    /\ RowUnits(fobOut) = {UNIT_9, UNIT_10}
    /\ RowUnits(busyOut) = {UNIT_9}

---------------------------------------------------------------------------
\* The strict form: 4-digit year, '-', 2-digit month, '-', 2-digit day,
\* 'T', 2-digit hour, ':', 2-digit minute, ':', 2-digit second
StrictForm(s) ==
    /\ Len(s) = 19
    /\ \A i \in {1, 2, 3, 4, 6, 7, 9, 10, 12, 13, 15, 16, 18, 19} :
           s[i] \in 48..57
    /\ s[5] = 45 /\ s[8] = 45 /\ s[11] = 84 /\ s[14] = 58 /\ s[17] = 58

\* The records of a unit whose AccessTimestamp, as stored, has the strict
\* form with the given hour
StrictAt(records, unit, hour) ==
    {i \in 1..Len(records) :
        LET s == Field(records[i], "AccessTimestamp")
        IN  /\ UnitOf(records[i]) = unit
            /\ StrictForm(s)
            /\ Number(SubSeq(s, 12, 13)) = hour}

\* The keys of a histogram are trimmed non-empty units and hours of the day
HistogramKeys ==
    \A i \in 1..Len(unit_hour_counts) :
        /\ unit_hour_counts[i].k \in UnitsOf(data)
        /\ \A j \in 1..Len(unit_hour_counts[i].v) :
               unit_hour_counts[i].v[j].k \in Hours

\* C10 as stated.  Strict timestamp parse: a record with a unit increments
\* the count of (unit, hour) iff its AccessTimestamp has exactly the strict
\* form; any other string, as one with a one-digit month or hour or with
\* surrounding whitespace, is counted nowhere.
StrictTimestampParse ==
    busyOut.status = "returned" =>
        /\ HistogramKeys
        /\ \A unit \in UnitsOf(data) : \A hour \in Hours :
               CountOf(unit_hour_counts, unit, hour)
                   = Cardinality(StrictAt(data, unit, hour))

\* C10 as amended.  A record with a unit increments the count of (unit,
\* hour) iff its AccessTimestamp, trimmed of surrounding whitespace, is one
\* the lenient parse accepts (AcceptedStamp), and hour is the hour it
\* writes; any other string is counted nowhere.
LenientTimestampParse ==
    busyOut.status = "returned" =>
        /\ HistogramKeys
        /\ \A unit \in UnitsOf(data) :
               LET valid == ValidOf(data, unit)
                   hours == [i \in valid |-> HourOf(data[i])]
               IN  \A hour \in Hours :
                       CountOf(unit_hour_counts, unit, hour)
                           = Cardinality({i \in valid : hours[i] = hour})

\* Unit "9" with a timestamp of one-digit month and hour, one padded with
\* spaces and one of the strict form on February 30: the first two are
\* counted, at 8 and at 9, the third is counted nowhere.
LenientTimestampParseWitness ==
    /\ busyOut.status = "returned"
    /\ Len(data) = 3
    /\ \A i \in 1..3 : UnitOf(data[i]) = UNIT_9
    /\ Field(data[1], "AccessTimestamp") = TS_0805_SHORT
    /\ Field(data[2], "AccessTimestamp") = TS_0915_PADDED
    /\ Field(data[3], "AccessTimestamp") = TS_FEB_30
    /\ CountOf(unit_hour_counts, UNIT_9, 8) = 1
    /\ CountOf(unit_hour_counts, UNIT_9, 9) = 1
    /\ TotalOf(unit_hour_counts, UNIT_9, 23) = 2

---------------------------------------------------------------------------
\* The (CardBatch, CardNumber) pairs of the records of a unit, as stored
PairsOf(records, unit) ==
    {<<Field(records[i], "CardBatch"), Field(records[i], "CardNumber")>> :
        i \in {j \in 1..Len(records) : UnitOf(records[j]) = unit}}

\* C11.  Two records produce the same CredentialId iff their CardBatch
\* fields are exactly equal and their CardNumber fields are exactly equal:
\* the fob set of a unit holds one entry for each distinct (CardBatch,
\* CardNumber) pair of its records, two records that differ in either field
\* never collapse into one entry.
CredentialIdIffFieldsEqual ==
    fobOut.status = "returned" =>
        \A i \in 1..Len(unit_fobs) :
            Len(unit_fobs[i].v)
                = Cardinality(PairsOf(data, unit_fobs[i].k))

---------------------------------------------------------------------------
\* What a call with the target has done when it is over: out is what it
\* gave back, lines what it printed.  With a non-empty path it has not
\* raised, the parent directory of the path exists and the file at the path
\* holds the text returned; with no target it has written no file and has
\* printed the text it returns.
Delivered(output_file, out, lines) ==
    IF ~output_file.none /\ output_file.s # <<>>
    THEN /\ out.status = "returned"
         /\ Dirname(output_file.s) # <<>> => Dirname(output_file.s) \in dirs'
         /\ output_file.s \in DOMAIN files'
         /\ files'[output_file.s] = out.text
    ELSE /\ files' = files
         /\ dirs' = dirs
         /\ out.status = "returned" =>
                Len(lines) = 2 /\ lines[2] = out.text

\* C12.  Each report can be directed to a path or to the print sink: every
\* call with a non-empty target path creates the missing parent
\* directories, writes to the path the text it returns and does not raise;
\* a call with no target writes no file and prints the text it returns.
ReportDelivered ==
    [][\A output_file \in Targets :
           /\ generate_unit_fob_report(output_file) =>
                  Delivered(output_file, fobOut', printed'.fob)
           /\ generate_busy_time_report(output_file) =>
                  Delivered(output_file, busyOut', printed'.busy)]_vars

---------------------------------------------------------------------------
\* C13.  Determinism: on the loaded records, a run of a report that returns
\* gives the text the run before it returned, byte for byte, whatever the
\* hash seed (the iteration order of the sets) of either run, their targets
\* and the calls of the other report made between them.
RunsAgree ==
    [][/\ fobOut.status = "returned" /\ fobOut'.status = "returned" =>
              fobOut'.text = fobOut.text
       /\ busyOut.status = "returned" /\ busyOut'.status = "returned" =>
              busyOut'.text = busyOut.text]_vars

\* The fob report has run at least twice, once into the file, which holds
\* its text, and then to the print sink, with the same text; unit "9" has
\* two credentials, first seen in the order "9-1", "10-1"; the busy-hour
\* report has run too.
RunsAgreeWitness ==
    /\ fobOut.status = "returned"
    /\ busyOut.status = "returned"
    /\ PATH_NESTED \in DOMAIN files
    /\ files[PATH_NESTED] = fobOut.text
    /\ printed.fob = <<FOB_TITLE, fobOut.text>>
    /\ DictHas(unit_fobs, UNIT_9)
    /\ DictGet(unit_fobs, UNIT_9)
           = <<BATCH_9 \o <<45>> \o NUMBER_1, BATCH_10 \o <<45>> \o NUMBER_1>>

---------------------------------------------------------------------------
\* C14.  No report mutates the input: a call of a report, after any calls
\* before it, leaves the record sequence as load_data left it; and each
\* call builds its mapping fresh: a report that is generated again for the
\* same records leaves its UnitFobSet or UnitHourHistogram as the call
\* before built it, no id or count is carried over and added to.
InputKeptMappingsFresh ==
    [][pc = "ready" /\ pc' = "ready" =>
           /\ data' = data
           /\ fobOut # NotCalled => unit_fobs' = unit_fobs
           /\ busyOut # NotCalled => unit_hour_counts' = unit_hour_counts]_vars

\* The busy-hour report has run at least twice, into the file and then to
\* the print sink, on records with accesses of unit "9" at 14 and at 8, each
\* counted once; the fob report has run too.
InputKeptMappingsFreshWitness ==
    /\ fobOut.status = "returned"
    /\ busyOut.status = "returned"
    /\ PATH_NESTED \in DOMAIN files
    /\ files[PATH_NESTED] = busyOut.text
    /\ printed.busy = <<BUSY_TITLE, busyOut.text>>
    /\ Len(data) = 3
    /\ CountOf(unit_hour_counts, UNIT_9, 14) = 1
    /\ CountOf(unit_hour_counts, UNIT_9, 8) = 1

---------------------------------------------------------------------------
\* The orderings of a record sequence
Orderings(records) ==
    {[i \in 1..Len(records) |-> records[order[i]]] :
        order \in Permutations(1..Len(records))}

\* C15.  Order independence: a report returned for the loaded records is
\* the text the same report returns for every permutation of them, under
\* every hash seed.
OrderIndependent ==
    /\ fobOut.status = "returned" =>
           \A records \in Orderings(data) :
           \A loop \in {FobLoop(records, 1, NewUnitFobs)} :
           \A seed \in HashSeeds : FobResult(loop, seed) = fobOut
    /\ busyOut.status = "returned" =>
           \A records \in Orderings(data) : BusyReport(records) = busyOut

\* Three different records, the first and the third of unit "9" with
\* different credentials and accesses at 14 and at 8, one of unit "10"
\* between them; both reports are returned, with "10" before "9", "10-1"
\* before "9-1" and "8:00" before "14:00".
OrderIndependentWitness ==
    /\ fobOut.status = "returned"
    /\ busyOut.status = "returned"
    /\ Len(data) = 3
    /\ fieldnames = FIELDNAMES
    /\ data[1] = DictRow(FIELDNAMES, CsvRow(UNIT_9, BATCH_9, NUMBER_1, TS_1445))
    /\ data[2] = DictRow(FIELDNAMES, CsvRow(UNIT_10, BATCH_9, NUMBER_1, TS_0830))
    /\ data[3] = DictRow(FIELDNAMES, CsvRow(UNIT_9, BATCH_10, NUMBER_1, TS_0830))
    /\ Cardinality(Orderings(data)) = 6
    /\ [i \in 1..2 |-> RowUnit(UnitRows(fobOut)[i])] = <<UNIT_10, UNIT_9>>
    /\ [i \in 1..2 |-> RowUnit(UnitRows(busyOut)[i])] = <<UNIT_10, UNIT_9>>

====
